---- MODULE Spec2Model ----
(***************************************************************************)
(* Model of the RideBackend actor (src/backend/README.md, the Motoko       *)
(* canister code) as a state machine.                                      *)
(*                                                                         *)
(* A Motoko actor processes one message at a time; a shared function with  *)
(* no await runs to completion before the next message starts.  Callers    *)
(* are independent clients: each may have one call in flight, and the      *)
(* actor picks any in-flight call to execute next.  The responses are      *)
(* appended to log in call-completion order.                               *)
(***************************************************************************)
EXTENDS Integers, Sequences, FiniteSets, TLC

\* ---------------------------------------------------------------- bounds
MaxRides == 2      \* createRide is not submitted once this many ids are allotted
MaxCalls == 4      \* total number of calls submitted in one behaviour
MaxTime  == 2      \* largest reading of Time.now()
MaxEffects == 3    \* runs of the map component's route effect

\* ---------------------------------------------------------------- inputs
Callers   == {"alice", "bob"}
\* Arguments of createRide; coordinates and prices are in tenths.
Pickups   == {[latitude |-> 65, longitude |-> 33]}
Dropoffs  == {[latitude |-> 50, longitude |-> 75]}
Prices    == {125}
\* Malformed arguments of createRide: a latitude above 90, a longitude above
\* 180, a negative price.
MalformedRequests ==
    {[pickupLocation |-> [latitude |-> 910, longitude |-> 33],
      dropoffLocation |-> [latitude |-> 50, longitude |-> 75], price |-> 125],
     [pickupLocation |-> [latitude |-> 65, longitude |-> 33],
      dropoffLocation |-> [latitude |-> 50, longitude |-> 1810], price |-> 125],
     [pickupLocation |-> [latitude |-> 65, longitude |-> 33],
      dropoffLocation |-> [latitude |-> 50, longitude |-> 75], price |-> -10]}

\* ------------------------------------------------ types of the actor
\* An option ?T is a sequence of at most one element: null is the empty
\* option, some(v) is ?v.
null == << >>
some(v) == <<v>>
RideStatus == {"pending", "accepted", "completed", "cancelled"}

NotFound     == "Ride not found"
InvalidState == "Ride is not available for acceptance"
Unauthorized == "Only the assigned driver can complete the ride"

ok(ride)  == [tag |-> "ok", ride |-> ride]
err(text) == [tag |-> "err", text |-> text]

NoCall == [op |-> "none"]

VARIABLES
    nextRideId,   \* private stable var nextRideId : Nat
    rides,        \* private let rides : HashMap<RideId, Ride>, as a function
    now,          \* the latest system time handed out by Time.now()
    inflight,     \* per caller: the call sent and not yet executed, or NoCall
    log           \* the executed calls with their responses, in completion order

vars == <<nextRideId, rides, now, inflight, log>>

\* The map component MapNative (src/components/Map.tsx).
VARIABLES
    exampleFrom,      \* useState: the demo origin, or null
    exampleTo,        \* useState: the demo destination, or null
    userLocation,     \* location store: userLatitude/userLongitude, or null
    destination,      \* location store: destinationLatitude/Longitude, or null
    route,            \* useState: the route shown, or null
    routeLoading,     \* useState: "Calculating route..." is shown
    routeError,       \* useState: the error shown, or null
    effects,          \* the runs of the route effect, each with its closure
    effectPending,    \* a dependency changed and the effect has not yet run again
    componentMounted  \* the component is on screen

mapVars == <<exampleFrom, exampleTo, userLocation, destination, route,
             routeLoading, routeError, effects, effectPending, componentMounted>>

\* The ids a caller passes to acceptRide and completeRide: every id allotted
\* so far and the first id not yet allotted.
RideIds == 1 .. nextRideId

\* ------------------------------------------------ HashMap operations
get(m, k) == IF k \in DOMAIN m THEN some(m[k]) ELSE null

put(m, k, v) == [x \in (DOMAIN m) \cup {k} |-> IF x = k THEN v ELSE m[x]]

\* ------------------------------------------------ the actor's methods
\* Each update method is a function of the actor state, the caller, the
\* arguments and the value t that Time.now() returns during the message; it
\* yields the new actor state and the response.

\* createRide that forgets to advance the counter.
createRide_NoIncrement(caller, pickupLocation, dropoffLocation, price, t) ==
    LET rideId == nextRideId
        ride == [id |-> rideId,
                 passengerId |-> caller,
                 driverId |-> null,
                 pickupLocation |-> pickupLocation,
                 dropoffLocation |-> dropoffLocation,
                 status |-> "pending",
                 price |-> price,
                 createdAt |-> t,
                 updatedAt |-> t]
    IN [nextRideId |-> nextRideId,
        rides |-> put(rides, rideId, ride),
        res |-> ok(ride)]

\* createRide that stores the two locations the wrong way round.
createRide_SwapsLocations(caller, pickupLocation, dropoffLocation, price, t) ==
    LET rideId == nextRideId
        ride == [id |-> rideId,
                 passengerId |-> caller,
                 driverId |-> null,
                 pickupLocation |-> dropoffLocation,
                 dropoffLocation |-> pickupLocation,
                 status |-> "pending",
                 price |-> price,
                 createdAt |-> t,
                 updatedAt |-> t]
    IN [nextRideId |-> nextRideId + 1,
        rides |-> put(rides, rideId, ride),
        res |-> ok(ride)]

createRide(caller, pickupLocation, dropoffLocation, price, t) ==
    LET rideId == nextRideId
        ride == [id |-> rideId,
                 passengerId |-> caller,
                 driverId |-> null,
                 pickupLocation |-> pickupLocation,
                 dropoffLocation |-> dropoffLocation,
                 status |-> "pending",
                 price |-> price,
                 createdAt |-> t,
                 updatedAt |-> t]
    IN [nextRideId |-> nextRideId + 1,
        rides |-> put(rides, rideId, ride),
        res |-> ok(ride)]

getRide(rideId) == get(rides, rideId)

\* acceptRide without the check of the status.
acceptRide_NoStatusCheck(caller, rideId, t) ==
    IF get(rides, rideId) # null
    THEN LET ride == get(rides, rideId)[1]
             updatedRide == [ride EXCEPT !.driverId = some(caller),
                                         !.status = "accepted",
                                         !.updatedAt = t]
         IN [nextRideId |-> nextRideId,
             rides |-> put(rides, rideId, updatedRide),
             res |-> ok(updatedRide)]
    ELSE [nextRideId |-> nextRideId, rides |-> rides, res |-> err(NotFound)]

\* acceptRide that lets the ride's current driver accept it again.
acceptRide_DriverMayReaccept(caller, rideId, t) ==
    IF get(rides, rideId) # null
    THEN LET ride == get(rides, rideId)[1] IN
         IF ride.status # "pending" /\ ride.driverId # some(caller)
         THEN [nextRideId |-> nextRideId, rides |-> rides, res |-> err(InvalidState)]
         ELSE LET updatedRide == [ride EXCEPT !.driverId = some(caller),
                                              !.status = "accepted",
                                              !.updatedAt = t]
              IN [nextRideId |-> nextRideId,
                  rides |-> put(rides, rideId, updatedRide),
                  res |-> ok(updatedRide)]
    ELSE [nextRideId |-> nextRideId, rides |-> rides, res |-> err(NotFound)]

\* acceptRide that leaves driverId as it was.
acceptRide_NoDriver(caller, rideId, t) ==
    IF get(rides, rideId) # null
    THEN LET ride == get(rides, rideId)[1] IN
         IF ride.status # "pending"
         THEN [nextRideId |-> nextRideId, rides |-> rides, res |-> err(InvalidState)]
         ELSE LET updatedRide == [ride EXCEPT !.status = "accepted",
                                              !.updatedAt = t]
              IN [nextRideId |-> nextRideId,
                  rides |-> put(rides, rideId, updatedRide),
                  res |-> ok(updatedRide)]
    ELSE [nextRideId |-> nextRideId, rides |-> rides, res |-> err(NotFound)]

\* acceptRide that stamps createdAt in place of updatedAt.
acceptRide_StampsCreatedAt(caller, rideId, t) ==
    IF get(rides, rideId) # null
    THEN LET ride == get(rides, rideId)[1] IN
         IF ride.status # "pending"
         THEN [nextRideId |-> nextRideId, rides |-> rides, res |-> err(InvalidState)]
         ELSE LET updatedRide == [ride EXCEPT !.driverId = some(caller),
                                              !.status = "accepted",
                                              !.createdAt = t]
              IN [nextRideId |-> nextRideId,
                  rides |-> put(rides, rideId, updatedRide),
                  res |-> ok(updatedRide)]
    ELSE [nextRideId |-> nextRideId, rides |-> rides, res |-> err(NotFound)]

acceptRide(caller, rideId, t) ==
    IF get(rides, rideId) # null
    THEN LET ride == get(rides, rideId)[1] IN
         IF ride.status # "pending"
         THEN [nextRideId |-> nextRideId, rides |-> rides, res |-> err(InvalidState)]
         ELSE LET updatedRide == [ride EXCEPT !.driverId = some(caller),
                                              !.status = "accepted",
                                              !.updatedAt = t]
              IN [nextRideId |-> nextRideId,
                  rides |-> put(rides, rideId, updatedRide),
                  res |-> ok(updatedRide)]
    ELSE [nextRideId |-> nextRideId, rides |-> rides, res |-> err(NotFound)]

\* completeRide without the check of the caller.
completeRide_NoDriverCheck(caller, rideId, t) ==
    IF get(rides, rideId) # null
    THEN LET ride == get(rides, rideId)[1]
             updatedRide == [ride EXCEPT !.status = "completed",
                                         !.updatedAt = t]
         IN [nextRideId |-> nextRideId,
             rides |-> put(rides, rideId, updatedRide),
             res |-> ok(updatedRide)]
    ELSE [nextRideId |-> nextRideId, rides |-> rides, res |-> err(NotFound)]

\* completeRide that rejects the caller only when another driver is assigned.
completeRide_NullDriverPasses(caller, rideId, t) ==
    IF get(rides, rideId) # null
    THEN LET ride == get(rides, rideId)[1] IN
         IF ride.driverId # null /\ ride.driverId # some(caller)
         THEN [nextRideId |-> nextRideId, rides |-> rides, res |-> err(Unauthorized)]
         ELSE LET updatedRide == [ride EXCEPT !.status = "completed",
                                              !.updatedAt = t]
              IN [nextRideId |-> nextRideId,
                  rides |-> put(rides, rideId, updatedRide),
                  res |-> ok(updatedRide)]
    ELSE [nextRideId |-> nextRideId, rides |-> rides, res |-> err(NotFound)]

\* completeRide that reports a missing ride as a failed driver check.
completeRide_MissingIsUnauthorized(caller, rideId, t) ==
    IF get(rides, rideId) # null
    THEN LET ride == get(rides, rideId)[1] IN
         IF ride.driverId # some(caller)
         THEN [nextRideId |-> nextRideId, rides |-> rides, res |-> err(Unauthorized)]
         ELSE LET updatedRide == [ride EXCEPT !.status = "completed",
                                              !.updatedAt = t]
              IN [nextRideId |-> nextRideId,
                  rides |-> put(rides, rideId, updatedRide),
                  res |-> ok(updatedRide)]
    ELSE [nextRideId |-> nextRideId, rides |-> rides, res |-> err(Unauthorized)]

\* completeRide that writes the wrong variant of RideStatus.
completeRide_WritesCancelled(caller, rideId, t) ==
    IF get(rides, rideId) # null
    THEN LET ride == get(rides, rideId)[1] IN
         IF ride.driverId # some(caller)
         THEN [nextRideId |-> nextRideId, rides |-> rides, res |-> err(Unauthorized)]
         ELSE LET updatedRide == [ride EXCEPT !.status = "cancelled",
                                              !.updatedAt = t]
              IN [nextRideId |-> nextRideId,
                  rides |-> put(rides, rideId, updatedRide),
                  res |-> ok(updatedRide)]
    ELSE [nextRideId |-> nextRideId, rides |-> rides, res |-> err(NotFound)]

completeRide(caller, rideId, t) ==
    IF get(rides, rideId) # null
    THEN LET ride == get(rides, rideId)[1] IN
         IF ride.driverId # some(caller)
         THEN [nextRideId |-> nextRideId, rides |-> rides, res |-> err(Unauthorized)]
         ELSE LET updatedRide == [ride EXCEPT !.status = "completed",
                                              !.updatedAt = t]
              IN [nextRideId |-> nextRideId,
                  rides |-> put(rides, rideId, updatedRide),
                  res |-> ok(updatedRide)]
    ELSE [nextRideId |-> nextRideId, rides |-> rides, res |-> err(NotFound)]

\* ------------------------------------------------ the actor's queries
\* rides.vals(): the stored rides, one after the other.  The order is the
\* HashMap's own; the model takes increasing keys, and the properties below
\* compare the results as sets.
RECURSIVE valsOf(_, _)
valsOf(m, keys) ==
    IF keys = {} THEN << >>
    ELSE LET k == CHOOSE x \in keys : \A y \in keys : x <= y
         IN <<m[k]>> \o valsOf(m, keys \ {k})

vals(m) == valsOf(m, DOMAIN m)

\* Each query is the loop "for (ride in rides.vals()) { if (...) buffer.add(ride) }"
\* followed by buffer.toArray(): the rides of vals(rides) that pass, in order.
\* getAvailableRides that leaves out only the completed rides.
getAvailableRides_NotCompleted ==
    SelectSeq(vals(rides), LAMBDA ride : ride.status # "completed")

getAvailableRides ==
    SelectSeq(vals(rides), LAMBDA ride : ride.status = "pending")

\* getPassengerRides whose loop adds every ride.
getPassengerRides_All(passengerId) ==
    SelectSeq(vals(rides), LAMBDA ride : TRUE)

getPassengerRides(passengerId) ==
    SelectSeq(vals(rides), LAMBDA ride : ride.passengerId = passengerId)

\* getDriverRides that compares the passenger with the driver asked for.
getDriverRides_MatchesPassenger(driverId) ==
    SelectSeq(vals(rides), LAMBDA ride : ride.passengerId = driverId)

getDriverRides(driverId) ==
    SelectSeq(vals(rides),
          LAMBDA ride : ride.driverId # null /\ ride.driverId[1] = driverId)

\* ------------------------------------------------ the environment
\* Time.now(): constant within one message, never decreasing from one
\* message to the next; two messages of one round read the same value.
TimeNow == {t \in {now, now + 1} : t <= MaxTime}

Submitted == Len(log) + Cardinality({c \in Callers : inflight[c] # NoCall})

CreatesInFlight == Cardinality({c \in Callers : inflight[c].op = "createRide"})

\* ------------------------------------------------ initial state
\* The map component after its first render: no example, nothing shown, the
\* route effect still to run for the first time.
MapInit ==
    /\ exampleFrom = null
    /\ exampleTo = null
    /\ userLocation = null
    /\ destination = null
    /\ route = null
    /\ routeLoading = FALSE
    /\ routeError = null
    /\ effects = << >>
    /\ effectPending = TRUE
    /\ componentMounted = TRUE

Init ==
    /\ nextRideId = 1
    /\ rides = << >>
    /\ now = 1
    /\ inflight = [c \in Callers |-> NoCall]
    /\ log = << >>
    /\ MapInit

\* ------------------------------------------------ actions
\* A caller sends createRide(pickupLocation, dropoffLocation, price).  While
\* a call is in flight its field at is the number of calls that had
\* completed when it was sent.
SubmitCreateRide ==
    \E c \in Callers, pickup \in Pickups, dropoff \in Dropoffs, price \in Prices :
        /\ inflight[c] = NoCall
        /\ Submitted < MaxCalls
        /\ nextRideId + CreatesInFlight <= MaxRides
        /\ inflight' = [inflight EXCEPT ![c] =
                 [op |-> "createRide", caller |-> c, at |-> Len(log),
                  pickupLocation |-> pickup, dropoffLocation |-> dropoff,
                  price |-> price]]
        /\ UNCHANGED <<nextRideId, rides, now, log>>
        /\ UNCHANGED mapVars

\* A caller sends acceptRide(rideId).
SubmitAcceptRide ==
    \E c \in Callers, rideId \in RideIds :
        /\ inflight[c] = NoCall
        /\ Submitted < MaxCalls
        /\ inflight' = [inflight EXCEPT ![c] =
                 [op |-> "acceptRide", caller |-> c, at |-> Len(log),
                  rideId |-> rideId]]
        /\ UNCHANGED <<nextRideId, rides, now, log>>
        /\ UNCHANGED mapVars

\* A caller sends completeRide(rideId).
SubmitCompleteRide ==
    \E c \in Callers, rideId \in RideIds :
        /\ inflight[c] = NoCall
        /\ Submitted < MaxCalls
        /\ inflight' = [inflight EXCEPT ![c] =
                 [op |-> "completeRide", caller |-> c, at |-> Len(log),
                  rideId |-> rideId]]
        /\ UNCHANGED <<nextRideId, rides, now, log>>
        /\ UNCHANGED mapVars

\* The call as it is entered in the log.
Logged(call) == [f \in (DOMAIN call) \ {"at"} |-> call[f]]

\* The actor state after a message, and the response delivered to the caller.
Respond(c, t, out) ==
    /\ nextRideId' = out.nextRideId
    /\ rides' = out.rides
    /\ now' = t
    /\ log' = Append(log, [call |-> Logged(inflight[c]), res |-> out.res])
    /\ inflight' = [inflight EXCEPT ![c] = NoCall]
    /\ UNCHANGED mapVars

\* The actor executes an in-flight createRide message.
ExecCreateRide ==
    \E c \in Callers, t \in TimeNow :
        /\ inflight[c].op = "createRide"
        /\ Respond(c, t, createRide(c, inflight[c].pickupLocation,
                                     inflight[c].dropoffLocation,
                                     inflight[c].price, t))

\* The actor executes an in-flight acceptRide message.
ExecAcceptRide ==
    \E c \in Callers, t \in TimeNow :
        /\ inflight[c].op = "acceptRide"
        /\ Respond(c, t, acceptRide(c, inflight[c].rideId, t))

\* The actor executes an in-flight completeRide message.
ExecCompleteRide ==
    \E c \in Callers, t \in TimeNow :
        /\ inflight[c].op = "completeRide"
        /\ Respond(c, t, completeRide(c, inflight[c].rideId, t))

Next ==
    \/ SubmitCreateRide
    \/ SubmitAcceptRide
    \/ SubmitCompleteRide
    \/ ExecCreateRide
    \/ ExecAcceptRide
    \/ ExecCompleteRide

Spec == Init /\ [][Next]_vars

\* A canister upgrade: stable variables keep their values, every other
\* field of the actor is initialised again.  Calls in flight stay queued.
Upgrade ==
    /\ rides' = << >>
    /\ UNCHANGED <<nextRideId, now, inflight, log>>
    /\ UNCHANGED mapVars

NextUpgrade == Next \/ Upgrade

SpecUpgrade == Init /\ [][NextUpgrade]_vars

\* A caller sends createRide with malformed arguments.
SubmitMalformedCreateRide ==
    \E c \in Callers, req \in MalformedRequests :
        /\ inflight[c] = NoCall
        /\ Submitted < MaxCalls
        /\ nextRideId + CreatesInFlight <= MaxRides
        /\ inflight' = [inflight EXCEPT ![c] =
                 [op |-> "createRide", caller |-> c, at |-> Len(log),
                  pickupLocation |-> req.pickupLocation,
                  dropoffLocation |-> req.dropoffLocation,
                  price |-> req.price]]
        /\ UNCHANGED <<nextRideId, rides, now, log>>
        /\ UNCHANGED mapVars

NextInput == Next \/ SubmitMalformedCreateRide

SpecInput == Init /\ [][NextInput]_vars

\* ------------------------------------------------ the map component
\* Values of the location store and the two demo points.
UserLocations == {"here"}
Destinations  == {"there"}
lagos == "lagos"
uyo   == "uyo"

\* a ?? b
orElse(a, b) == IF a # null THEN a ELSE b

\* The origin and destination fetchRoute works with.
origin == orElse(exampleFrom, userLocation)
dest   == orElse(exampleTo, destination)

\* The buttons are rendered only when the map is: with a user location or
\* an example origin.
ButtonsVisible == componentMounted /\ (userLocation # null \/ exampleFrom # null)

\* A change of a dependency schedules another run of the effect.
DepsChanged ==
    /\ Len(effects) < MaxEffects
    /\ effectPending' = TRUE
    /\ UNCHANGED <<route, routeLoading, routeError, effects, componentMounted>>
    /\ UNCHANGED vars

\* setLagosToUyoDemo: both setters get a new object, so the effect runs again
\* even when the example was already set.
SetLagosToUyoDemo ==
    /\ ButtonsVisible
    /\ exampleFrom' = some(lagos)
    /\ exampleTo' = some(uyo)
    /\ UNCHANGED <<userLocation, destination>>
    /\ DepsChanged

\* clearExample: setting null over null changes nothing.
ClearExample ==
    /\ ButtonsVisible
    /\ exampleFrom # null \/ exampleTo # null
    /\ exampleFrom' = null
    /\ exampleTo' = null
    /\ UNCHANGED <<userLocation, destination>>
    /\ DepsChanged

\* The location store delivers another user location or destination.
StoreUpdate ==
    /\ componentMounted
    /\ \E u \in {null} \cup {some(x) : x \in UserLocations},
          d \in {null} \cup {some(x) : x \in Destinations} :
          /\ <<u, d>> # <<userLocation, destination>>
          /\ userLocation' = u
          /\ destination' = d
    /\ UNCHANGED <<exampleFrom, exampleTo>>
    /\ DepsChanged

\* setMarkers stores a new array, which is a dependency of the effect.
SetMarkers ==
    /\ componentMounted
    /\ userLocation # null
    /\ UNCHANGED <<exampleFrom, exampleTo, userLocation, destination>>
    /\ DepsChanged

\* The cleanup of the latest run: mounted = false in its closure.
Cleanup(es) ==
    IF es = << >> THEN es
    ELSE [es EXCEPT ![Len(es)].mounted = FALSE]

\* The effect runs: the cleanup of the previous run, then fetchRoute up to
\* its await.
RunEffect ==
    /\ componentMounted
    /\ effectPending
    /\ effectPending' = FALSE
    /\ routeError' = null
    /\ route' = null
    /\ IF origin = null \/ dest = null
       THEN /\ effects' = Append(Cleanup(effects),
                                 [mounted |-> TRUE, fetch |-> "none",
                                  origin |-> origin, dest |-> dest])
            /\ UNCHANGED routeLoading
       ELSE /\ effects' = Append(Cleanup(effects),
                                 [mounted |-> TRUE, fetch |-> "pending",
                                  origin |-> origin, dest |-> dest])
            /\ routeLoading' = TRUE
    /\ UNCHANGED <<exampleFrom, exampleTo, userLocation, destination, componentMounted>>
    /\ UNCHANGED vars

\* The route routeOSRM returns to run k of the effect.
RouteOf(k) == [fetch |-> k, origin |-> effects[k].origin, dest |-> effects[k].dest]

\* The position run k of fetchRoute reaches when routeOSRM settles: after
\* "if (!mounted) return" it is dropped, otherwise it runs to the end.
Settled(k) == IF effects[k].mounted THEN "done" ELSE "dropped"

\* RouteResolved without "if (!mounted) return".
RouteResolved_NoMountedCheck ==
    \E k \in DOMAIN effects :
        /\ effects[k].fetch = "pending"
        /\ effects' = [effects EXCEPT ![k].fetch = Settled(k)]
        /\ route' = some([fetch |-> k, origin |-> effects[k].origin,
                          dest |-> effects[k].dest])
        /\ IF effects[k].mounted
           THEN routeLoading' = FALSE
           ELSE UNCHANGED routeLoading
        /\ UNCHANGED <<exampleFrom, exampleTo, userLocation, destination,
                       routeError, effectPending, componentMounted>>
        /\ UNCHANGED vars

\* routeOSRM of run k returns: the rest of the try block and the finally.
RouteResolved ==
    \E k \in DOMAIN effects :
        /\ effects[k].fetch = "pending"
        /\ effects' = [effects EXCEPT ![k].fetch = Settled(k)]
        /\ IF effects[k].mounted
           THEN /\ route' = some(RouteOf(k))
                /\ routeLoading' = FALSE
           ELSE UNCHANGED <<route, routeLoading>>
        /\ UNCHANGED <<exampleFrom, exampleTo, userLocation, destination,
                       routeError, effectPending, componentMounted>>
        /\ UNCHANGED vars

\* routeOSRM of run k throws: the catch block and the finally.
RouteFailed ==
    \E k \in DOMAIN effects :
        /\ effects[k].fetch = "pending"
        /\ effects' = [effects EXCEPT ![k].fetch = Settled(k)]
        /\ IF effects[k].mounted
           THEN /\ routeError' = some("Failed to fetch route")
                /\ routeLoading' = FALSE
           ELSE UNCHANGED <<routeError, routeLoading>>
        /\ UNCHANGED <<exampleFrom, exampleTo, userLocation, destination,
                       route, effectPending, componentMounted>>
        /\ UNCHANGED vars

\* The component leaves the screen: the cleanup of the latest run.
Unmount ==
    /\ componentMounted
    /\ componentMounted' = FALSE
    /\ effectPending' = FALSE
    /\ effects' = Cleanup(effects)
    /\ UNCHANGED <<exampleFrom, exampleTo, userLocation, destination,
                   route, routeLoading, routeError>>
    /\ UNCHANGED vars

MapNext ==
    \/ SetLagosToUyoDemo
    \/ ClearExample
    \/ StoreUpdate
    \/ SetMarkers
    \/ RunEffect
    \/ RouteResolved
    \/ RouteFailed
    \/ Unmount

SpecMap == Init /\ [][MapNext]_mapVars

\* React runs every effect it has scheduled, and the promise of routeOSRM
\* settles (fetch answers or fails). What the user and the store do is not
\* forced.
SpecMapFair ==
    /\ Init
    /\ [][MapNext]_mapVars
    /\ WF_mapVars(RunEffect)
    /\ WF_mapVars(RouteResolved \/ RouteFailed)

\* ======================================================== properties
\* Helpers for reading the log and a step of the actor.

AcceptAt(i)   == log[i].call.op = "acceptRide"
CreateAt(i)   == log[i].call.op = "createRide"
CompleteAt(i) == log[i].call.op = "completeRide"

\* The ride of call i existed and no acceptRide on it had succeeded before i:
\* call i found the ride pending.
FoundPending(i) ==
    /\ log[i].res # err(NotFound)
    /\ \A k \in 1 .. (i - 1) :
           ~(AcceptAt(k) /\ log[k].call.rideId = log[i].call.rideId
                         /\ log[k].res.tag = "ok")

\* The acceptRide call of caller b is in flight and has lost a race: call i,
\* an acceptRide of another caller on the same ride, found the ride pending
\* and completed after b's call was sent.
RaceLost(b, i) ==
    /\ inflight[b].op = "acceptRide"
    /\ AcceptAt(i)
    /\ log[i].call.rideId = inflight[b].rideId
    /\ log[i].call.caller # b
    /\ inflight[b].at < i
    /\ FoundPending(i)

\* In this step the actor executes the call of caller c.
Executed(c) ==
    /\ inflight[c] # NoCall
    /\ inflight'[c] = NoCall
    /\ Len(log') = Len(log) + 1

\* The response delivered in this step.
Response == log'[Len(log')].res

\* ---------------------------------------------------------------- C1
\* C1: when two acceptRide calls by distinct callers race on the same
\* pending ride, the one executed first has returned ok with driverId set to
\* its caller and status accepted, the other returns "Ride is not available
\* for acceptance", and the stored ride's driverId is the winner's.
C1_AcceptRaceOneWinner ==
    [][\A b \in Callers, i \in DOMAIN log :
          (Executed(b) /\ RaceLost(b, i)) =>
              /\ log[i].res.tag = "ok"
              /\ log[i].res.ride.driverId = some(log[i].call.caller)
              /\ log[i].res.ride.status = "accepted"
              /\ Response = err(InvalidState)
              /\ get(rides', inflight[b].rideId) # null
              /\ get(rides', inflight[b].rideId)[1].driverId
                     = some(log[i].call.caller)]_vars

C1_Witness ==
    \E b \in Callers, i \in DOMAIN log :
        /\ RaceLost(b, i)
        /\ log[i].res.tag = "ok"
        /\ log[i].res.ride.driverId = some(log[i].call.caller)

\* ---------------------------------------------------------------- C2
\* C2: the ids returned by createRide are pairwise distinct and strictly
\* increasing in call-completion order, whatever the interleaving.
C2_CreateIdsIncreasing ==
    \A i \in DOMAIN log, j \in DOMAIN log :
        (i < j /\ CreateAt(i) /\ CreateAt(j)) =>
            /\ log[i].res.tag = "ok"
            /\ log[j].res.tag = "ok"
            /\ log[i].res.ride.id < log[j].res.ride.id

C2_Witness ==
    \E i \in DOMAIN log, j \in DOMAIN log :
        /\ i < j
        /\ CreateAt(i) /\ CreateAt(j)
        /\ log[i].call.caller # log[j].call.caller
        /\ log[i].res.tag = "ok" /\ log[j].res.tag = "ok"

\* ---------------------------------------------------------------- C3
\* C3: in every step the status of every ride either stays or moves along
\* pending->accepted, accepted->completed or pending->cancelled.
AllowedEdges == {<<"pending", "accepted">>, <<"accepted", "completed">>,
                 <<"pending", "cancelled">>}

C3_StatusEdges ==
    [][\A r \in DOMAIN rides :
          /\ r \in DOMAIN rides'
          /\ \/ rides'[r].status = rides[r].status
             \/ <<rides[r].status, rides'[r].status>> \in AllowedEdges]_vars

C3_Witness ==
    \E i \in DOMAIN log, r \in DOMAIN rides :
        /\ CompleteAt(i) /\ log[i].call.rideId = r
        /\ log[i].res.tag = "ok"
        /\ rides[r].status = "completed"

\* ---------------------------------------------------------------- C4
\* C4: completeRide by the assigned driver on a ride that is already
\* completed or cancelled returns an error and leaves the ride, its
\* updatedAt included, as it was.
C4_CompleteOnlyAccepted ==
    [][\A c \in Callers :
          (/\ Executed(c)
           /\ inflight[c].op = "completeRide"
           /\ getRide(inflight[c].rideId) # null
           /\ getRide(inflight[c].rideId)[1].driverId = some(c)
           /\ getRide(inflight[c].rideId)[1].status \in {"completed", "cancelled"})
          => /\ Response.tag = "err"
             /\ rides' = rides]_vars

\* ---------------------------------------------------------------- C5
\* C5: acceptRide on an existing ride whose status is not pending returns
\* "Ride is not available for acceptance" to every caller, the ride's
\* driver included, and leaves the registry as it was.
C5_AcceptNonPending ==
    [][\A c \in Callers :
          (/\ Executed(c)
           /\ inflight[c].op = "acceptRide"
           /\ getRide(inflight[c].rideId) # null
           /\ getRide(inflight[c].rideId)[1].status # "pending")
          => /\ Response = err(InvalidState)
             /\ rides' = rides
             /\ nextRideId' = nextRideId]_vars

C5_Witness ==
    \E i \in DOMAIN log :
        /\ AcceptAt(i)
        /\ log[i].res = err(InvalidState)
        /\ getRide(log[i].call.rideId) # null
        /\ getRide(log[i].call.rideId)[1].driverId = some(log[i].call.caller)

\* ---------------------------------------------------------------- C6
\* C6: completeRide on an existing ride by any caller other than the stored
\* driverId (any caller at all while driverId is null) returns "Only the
\* assigned driver can complete the ride" and leaves the registry as it was.
C6_CompleteUnauthorized ==
    [][\A c \in Callers :
          (/\ Executed(c)
           /\ inflight[c].op = "completeRide"
           /\ getRide(inflight[c].rideId) # null
           /\ getRide(inflight[c].rideId)[1].driverId # some(c))
          => /\ Response = err(Unauthorized)
             /\ rides' = rides
             /\ nextRideId' = nextRideId]_vars

C6_Witness ==
    \E i \in DOMAIN log :
        /\ CompleteAt(i)
        /\ log[i].res = err(Unauthorized)
        /\ getRide(log[i].call.rideId) # null
        /\ getRide(log[i].call.rideId)[1].driverId = null
        /\ getRide(log[i].call.rideId)[1].passengerId = log[i].call.caller

\* ---------------------------------------------------------------- C7
\* C7: acceptRide and completeRide on an id that was never allotted return
\* "Ride not found", and the rides and the counter are unchanged.
NeverAllocated(rideId) == rideId \notin 1 .. (nextRideId - 1)

C7_NotFound ==
    [][\A c \in Callers :
          (/\ Executed(c)
           /\ inflight[c].op \in {"acceptRide", "completeRide"}
           /\ NeverAllocated(inflight[c].rideId))
          => /\ Response = err(NotFound)
             /\ rides' = rides
             /\ nextRideId' = nextRideId]_vars

C7_Witness ==
    \E i \in DOMAIN log, j \in DOMAIN log :
        /\ AcceptAt(i) /\ CompleteAt(j)
        /\ log[i].res = err(NotFound)
        /\ log[j].res = err(NotFound)
        /\ NeverAllocated(log[i].call.rideId)
        /\ NeverAllocated(log[j].call.rideId)

\* ---------------------------------------------------------------- C8
\* C8: for every ride, driverId is set if and only if the status is
\* accepted or completed.
C8_DriverIffAccepted ==
    \A r \in DOMAIN rides :
        (rides[r].driverId # null) <=> (rides[r].status \in {"accepted", "completed"})

C8_Witness ==
    \E r \in DOMAIN rides, q \in DOMAIN rides :
        /\ rides[r].status = "pending" /\ rides[r].driverId = null
        /\ rides[q].status = "accepted" /\ rides[q].driverId # null

\* ---------------------------------------------------------------- C9
\* C9: a canister upgrade restores the rides and the counter: every ride
\* that getRide returned before the upgrade is returned unchanged after it,
\* the counter is the same, and every stored ride's id is below the counter.
UpgradeStep == UNCHANGED <<inflight, log, now>>

C9_UpgradeRestores ==
    [][UpgradeStep =>
          /\ \A rideId \in 1 .. (MaxRides + 1) :
                 getRide(rideId) # null => getRide(rideId)' = getRide(rideId)
          /\ nextRideId' = nextRideId
          /\ \A rideId \in DOMAIN rides' : rideId < nextRideId']_vars

\* ---------------------------------------------------------------- C10
\* A successful acceptRide or completeRide of caller c in this step.
Mutated(c) ==
    /\ Executed(c)
    /\ inflight[c].op \in {"acceptRide", "completeRide"}
    /\ Response.tag = "ok"

StampsOrdered == \A r \in DOMAIN rides : rides[r].updatedAt >= rides[r].createdAt

Range(s) == {s[i] : i \in DOMAIN s}

\* C11: getAvailableRides() returns exactly the rides whose status is
\* pending, and a ride is no longer returned once an acceptRide on it has
\* succeeded.
C11_AvailableIsPending ==
    [][/\ Range(getAvailableRides')
            = {rides'[r] : r \in {q \in DOMAIN rides' : rides'[q].status = "pending"}}
       /\ \A c \in Callers :
              (Executed(c) /\ inflight[c].op = "acceptRide" /\ Response.tag = "ok")
                  => \A ride \in Range(getAvailableRides') :
                         ride.id # inflight[c].rideId]_vars

C11_Witness ==
    \E r \in DOMAIN rides, q \in DOMAIN rides :
        /\ rides[r].status = "accepted"
        /\ rides[q].status = "pending"
        /\ getAvailableRides = <<rides[q]>>

\* ---------------------------------------------------------------- C12
\* C12: after createRide by caller c, getRide of the returned id yields a
\* ride with passengerId = c, no driver, status pending and the pickup,
\* dropoff and price of the call; getRide of an id never allotted yields
\* null.
C12_CreateThenGet ==
    [][/\ \A c \in Callers :
              (Executed(c) /\ inflight[c].op = "createRide") =>
                  /\ Response.tag = "ok"
                  /\ get(rides', Response.ride.id) # null
                  /\ LET ride == get(rides', Response.ride.id)[1] IN
                         /\ ride.passengerId = c
                         /\ ride.driverId = null
                         /\ ride.status = "pending"
                         /\ ride.pickupLocation = inflight[c].pickupLocation
                         /\ ride.dropoffLocation = inflight[c].dropoffLocation
                         /\ ride.price = inflight[c].price
       /\ \A rideId \in 0 .. (MaxRides + 2) :
              rideId \notin 1 .. (nextRideId' - 1) => get(rides', rideId) = null]_vars

C12_Witness ==
    \E i \in DOMAIN log :
        /\ CreateAt(i)
        /\ log[i].res.tag = "ok"
        /\ getRide(log[i].res.ride.id) = some(log[i].res.ride)
        /\ getRide(log[i].res.ride.id + 1) = null

\* ---------------------------------------------------------------- C13
\* After a successful acceptRide by d on ride r, getDriverRides(d) contains
\* r with status accepted, and nothing else when d drives no other ride.
AcceptedShowsInDriverRides(d) ==
    (Executed(d) /\ inflight[d].op = "acceptRide" /\ Response.tag = "ok") =>
        LET r == inflight[d].rideId IN
            /\ rides'[r] \in Range(getDriverRides(d)')
            /\ rides'[r].status = "accepted"
            /\ (\A q \in (DOMAIN rides) \ {r} : rides[q].driverId # some(d))
                   => getDriverRides(d)' = <<rides'[r]>>

C14_DriverIdKept ==
    [][\A r \in DOMAIN rides :
          rides[r].driverId # null =>
              /\ r \in DOMAIN rides'
              /\ rides'[r].driverId = rides[r].driverId]_vars

C14_Witness ==
    \E i \in DOMAIN log, j \in DOMAIN log, k \in DOMAIN log :
        /\ i < j /\ i < k
        /\ AcceptAt(i) /\ AcceptAt(j) /\ CompleteAt(k)
        /\ log[i].call.rideId = log[j].call.rideId
        /\ log[i].call.rideId = log[k].call.rideId
        /\ log[i].res.tag = "ok"
        /\ log[j].call.caller # log[i].call.caller
        /\ log[k].res.tag = "ok"
        /\ getRide(log[i].call.rideId) # null
        /\ getRide(log[i].call.rideId)[1].driverId = some(log[i].call.caller)

\* ---------------------------------------------------------------- C15
\* Coordinates and price as the data model wants them (in tenths).
ValidLocation(l) ==
    /\ l.latitude >= -900 /\ l.latitude <= 900
    /\ l.longitude >= -1800 /\ l.longitude <= 1800

ValidRequest(call) ==
    /\ ValidLocation(call.pickupLocation)
    /\ ValidLocation(call.dropoffLocation)
    /\ call.price >= 0

\* C15: createRide with a negative price or a coordinate out of range
\* returns an error, inserts no ride and does not advance the counter.
C15_RejectsMalformed ==
    [][\A c \in Callers :
          (Executed(c) /\ inflight[c].op = "createRide" /\ ~ValidRequest(inflight[c]))
              => /\ Response.tag = "err"
                 /\ rides' = rides
                 /\ nextRideId' = nextRideId]_vars

\* ---------------------------------------------------------------- C16
\* C16: getPassengerRides(p) returns exactly the rides whose passengerId is
\* p, and getDriverRides(d) exactly the rides whose driverId is set and is
\* d, each once.
C16_QueriesExact ==
    \A u \in Callers :
        /\ Range(getPassengerRides(u))
               = {rides[r] : r \in {q \in DOMAIN rides : rides[q].passengerId = u}}
        /\ Len(getPassengerRides(u)) = Cardinality(Range(getPassengerRides(u)))
        /\ Range(getDriverRides(u))
               = {rides[r] : r \in {q \in DOMAIN rides : rides[q].driverId = some(u)}}
        /\ Len(getDriverRides(u)) = Cardinality(Range(getDriverRides(u)))

C16_Witness ==
    \E r \in DOMAIN rides, q \in DOMAIN rides, p \in Callers, d \in Callers :
        /\ p # d
        /\ rides[r].passengerId = p /\ rides[r].driverId = some(d)
        /\ rides[q].passengerId = d /\ rides[q].driverId = null
        /\ getPassengerRides(p) = <<rides[r]>>
        /\ getPassengerRides(d) = <<rides[q]>>
        /\ getDriverRides(d) = <<rides[r]>>
        /\ getDriverRides(p) = << >>

\* ---------------------------------------------------------------- C17
\* The fields of a ride that no transition writes.
Fixed(ride) ==
    <<ride.id, ride.passengerId, ride.pickupLocation, ride.dropoffLocation,
      ride.price, ride.createdAt>>

\* C17: a successful acceptRide or completeRide on ride r leaves r's id,
\* passengerId, locations, price and createdAt at the values createRide
\* returned, every other ride unchanged and the counter unchanged.
C17_Frame ==
    [][\A c \in Callers :
          Mutated(c) =>
              LET r == inflight[c].rideId IN
                  /\ DOMAIN rides' = DOMAIN rides
                  /\ \A q \in (DOMAIN rides) \ {r} : rides'[q] = rides[q]
                  /\ Fixed(rides'[r]) = Fixed(rides[r])
                  /\ \E i \in DOMAIN log :
                         /\ CreateAt(i)
                         /\ log[i].res.tag = "ok"
                         /\ log[i].res.ride.id = r
                         /\ Fixed(rides'[r]) = Fixed(log[i].res.ride)
                  /\ nextRideId' = nextRideId]_vars

C17_Witness ==
    \E i \in DOMAIN log, j \in DOMAIN log, q \in DOMAIN rides :
        /\ AcceptAt(i) /\ CompleteAt(j)
        /\ log[i].res.tag = "ok" /\ log[j].res.tag = "ok"
        /\ log[i].call.rideId = log[j].call.rideId
        /\ q # log[i].call.rideId
        /\ log[j].res.ride.updatedAt > log[j].res.ride.createdAt

\* ---------------------------------------------------------------- C18
\* C18: no ride ever has status cancelled.
C18_NeverCancelled ==
    \A r \in DOMAIN rides :
        /\ rides[r].status \in RideStatus
        /\ rides[r].status # "cancelled"

C18_Witness ==
    /\ Len(log) = MaxCalls
    /\ \E r \in DOMAIN rides, q \in DOMAIN rides :
           /\ rides[r].status = "completed"
           /\ rides[q].status = "pending"

\* ---------------------------------------------------------------- C19
\* C19: the keys of rides are exactly 1 .. nextRideId - 1, every stored
\* ride's id is its key, and the counter never decreases.
C19_KeysDense ==
    [][/\ DOMAIN rides' = 1 .. (nextRideId' - 1)
       /\ \A r \in DOMAIN rides' : rides'[r].id = r
       /\ DOMAIN rides \subseteq DOMAIN rides'
       /\ nextRideId' >= nextRideId]_vars

C19_Witness ==
    /\ nextRideId = MaxRides + 1
    /\ DOMAIN rides = 1 .. MaxRides
    /\ \E r \in DOMAIN rides : rides[r].status = "completed"

\* ---------------------------------------------------------------- C20
\* The runs of the effect that started a fetch.
Fetches(es) == {k \in DOMAIN es : es[k].fetch # "none"}

LatestFetch(es) == CHOOSE k \in Fetches(es) : \A j \in Fetches(es) : j <= k

\* C20: a response of routeOSRM, success or failure, that arrives after the
\* cleanup of its run of the effect writes neither route nor routeError, and
\* the route shown is null or the result of the fetch started last.
C20_StaleResponseDropped ==
    [][/\ \A k \in DOMAIN effects :
              (/\ effects[k].fetch = "pending"
               /\ effects'[k].fetch # "pending"
               /\ ~effects[k].mounted)
                  => /\ route' = route
                     /\ routeError' = routeError
       /\ route' # null =>
              /\ Fetches(effects') # {}
              /\ route'[1].fetch = LatestFetch(effects')
              /\ route'[1].origin = effects'[LatestFetch(effects')].origin
              /\ route'[1].dest = effects'[LatestFetch(effects')].dest]_mapVars

C20_Witness ==
    \E k \in DOMAIN effects, j \in DOMAIN effects :
        /\ k < j
        /\ effects[k].fetch = "dropped"
        /\ effects[j].fetch = "done"
        /\ route = some([fetch |-> j, origin |-> effects[j].origin,
                         dest |-> effects[j].dest])
        /\ effects[k].origin # effects[j].origin

\* ---------------------------------------------------------------- C21
\* The latest run of the effect has its fetch in flight.
CurrentFetchInFlight ==
    /\ effects # << >>
    /\ effects[Len(effects)].fetch = "pending"

\* The line "Calculating route..." is on the screen.
IndicatorShown == componentMounted /\ routeLoading

\* C21: whenever the component is shown and no fetch of the current run of the
\* effect is in flight, routeLoading eventually becomes false: the indicator
\* does not stay on forever once the pending fetch of an earlier run settled.
C21_LoadingEnds ==
    (IndicatorShown /\ ~CurrentFetchInFlight) ~> ~IndicatorShown

\* The state the indicator is stuck in: shown, no run waiting, no fetch of
\* any run in flight, and the fetch that turned it on was dropped. Only the
\* user or the store can leave it, and they are still free to act.
C21_Stuck ==
    /\ IndicatorShown
    /\ Len(effects) < MaxEffects
    /\ ~effectPending
    /\ \A k \in DOMAIN effects : effects[k].fetch # "pending"
    /\ \E k \in DOMAIN effects : effects[k].fetch = "dropped"

====
